---- MODULE Spec2Model ----
(***************************************************************************)
(* Entity ID Searcher: the knowledge-graph-search edge function (the       *)
(* proxy), the React search form that calls it (App and its variants) and  *)
(* the display-score functions of the variants.                            *)
(*                                                                         *)
(* Strings that the code inspects character by character (the brand name,  *)
(* which is trimmed) are sequences of one-character strings; an optional   *)
(* JSON field is the empty sequence when absent and a one-element sequence *)
(* when present.  Raw result scores are counted in hundredths, so that     *)
(* 0.05 is 5 and 600 is 60000; the arithmetic on them is exact.            *)
(***************************************************************************)
EXTENDS Integers, Sequences, FiniteSets, TLC

VARIABLES variant, apiKey, upstream, brandName, status, result, isSearching,
          errorMessage, foundScore, reqs

vars == <<variant, apiKey, upstream, brandName, status, result, isSearching,
          errorMessage, foundScore, reqs>>

\* the deployment: which form is served, the function's environment, and (in
\* ProxySpec) the answer the upstream search API has for the request
envVars == <<variant, apiKey, upstream>>

uiVars == <<brandName, status, result, isSearching, errorMessage, foundScore>>

(***************************************************************************)
(* Bounds of the model.                                                    *)
(***************************************************************************)
MaxRequests == 2
MaxItems == 2

(***************************************************************************)
(* Optional values and strings.                                            *)
(***************************************************************************)
Undefined == <<>>
Some(x) == <<x>>
IsDefined(m) == m # Undefined
Val(m) == m[1]

\* the texts typed into the input: empty, blank, and a name
Texts == {<<>>, <<" ">>, <<"a">>}

RECURSIVE TrimStart(_)
TrimStart(s) == IF s # <<>> /\ Head(s) = " " THEN TrimStart(Tail(s)) ELSE s

RECURSIVE TrimEnd(_)
TrimEnd(s) ==
  IF s # <<>> /\ s[Len(s)] = " " THEN TrimEnd(SubSeq(s, 1, Len(s) - 1)) ELSE s

\* String.prototype.trim
Trim(s) == TrimEnd(TrimStart(s))

(***************************************************************************)
(* The proxy: supabase/functions/knowledge-graph-search/index.ts           *)
(***************************************************************************)
VALID_ENTITY_TYPES == {"Organization", "Corporation", "LocalBusiness"}
AMBIGUOUS_TYPES == {"Book", "Thing"}

corsHeaders ==
  [allowOrigin |-> "*",
   allowMethods |-> {"GET", "POST", "PUT", "DELETE", "OPTIONS"},
   allowHeaders |-> {"content-type", "authorization", "x-client-info", "apikey"}]

NoHeaders == [allowOrigin |-> "", allowMethods |-> {}, allowHeaders |-> {}]

\* the '@type' field of an upstream candidate: absent, one string or an array
NoType == [k |-> "undefined", a |-> <<>>]
TypeString(s) == [k |-> "string", a |-> <<s>>]
TypeArray(a) == [k |-> "array", a |-> a]

normalizeTypes(types) ==
  IF types.k = "undefined" \/ (types.k = "string" /\ types.a[1] = "")
  THEN <<>>
  ELSE types.a

\* Array.prototype.some over a list of types
SomeType(types, S) == \E i \in 1..Len(types) : types[i] \in S

hasValidEntityType(types) == SomeType(types, VALID_ENTITY_TYPES)

hasAmbiguousType(types) == SomeType(types, AMBIGUOUS_TYPES \cup {"Thing"})

\* KnowledgeGraphItem
Item(hasResult, id, name, type, description, url, score) ==
  [hasResult |-> hasResult, id |-> id, name |-> name, type |-> type,
   description |-> description, url |-> url, resultScore |-> score]

NameB == <<"b">>
NameC == <<"c">>

Items ==
  { Item(FALSE, Undefined, Undefined, NoType, Undefined, Undefined, Some(30000)),
    Item(TRUE, Some("kg:/m/1"), Some(NameB), NoType, Undefined, Undefined, Some(100)),
    Item(TRUE, Some("kg:/m/2"), Some(NameB), TypeString("Organization"),
         Some("desc"), Some("https://b.example"), Some(60000)),
    Item(TRUE, Undefined, Some(NameC), TypeArray(<<"Thing", "LocalBusiness">>),
         Undefined, Undefined, Undefined),
    Item(TRUE, Some("kg:/m/3"), Undefined, TypeArray(<<"Corporation">>),
         Some("desc"), Undefined, Some(5)),
    Item(TRUE, Some("kg:/m/4"), Undefined, TypeArray(<<"Thing">>),
         Some("desc"), Undefined, Some(30000)),
    Item(TRUE, Undefined, Some(NameC), TypeArray(<<"Person", "Book">>),
         Undefined, Undefined, Some(200)),
    Item(TRUE, Some("kg:/m/5"), Some(NameB), TypeString("Thing"),
         Undefined, Some("https://b.example"), Undefined),
    Item(TRUE, Some("kg:/m/6"), Some(NameC), TypeString("Person"),
         Some("desc"), Undefined, Some(50)) }

ItemLists == UNION {[1..n -> Items] : n \in 0..MaxItems}

\* KnowledgeGraphResponse: itemListElement may be absent
UpstreamData == {[hasList |-> FALSE, items |-> <<>>]}
                  \cup {[hasList |-> TRUE, items |-> l] : l \in ItemLists}

\* the JSON value of the request body's query field
JValue(t, v) == [t |-> t, v |-> v]
JUndefined == JValue("undefined", <<>>)
JString(s) == JValue("string", s)

\* JavaScript truthiness of a JSON value
Truthy(j) ==
  CASE j.t = "string" -> j.v # <<>>
    [] j.t = "number" -> j.v # <<"0">>
    [] j.t = "boolean" -> j.v = <<"true">>
    [] j.t = "object" -> TRUE
    [] OTHER -> FALSE

QueryValues ==
  { JUndefined, JValue("null", <<>>), JString(<<>>), JString(<<"a">>),
    JValue("number", <<"0">>), JValue("number", <<"7">>),
    JValue("boolean", <<"true">>), JValue("object", <<>>) }

\* a request body: text that is not JSON, the JSON value null, or an object
Body(kind, query) == [kind |-> kind, query |-> query]
ClientBodies ==
  {Body("malformed", JUndefined), Body("null", JUndefined)}
    \cup {Body("object", q) : q \in QueryValues}

Methods == {"POST", "OPTIONS"}

\* the result object of a response; NULL where there is none
NULL == [null |-> TRUE]
Result(name, entityId, types, description, url, resultScore, location) ==
  [name |-> name, entityId |-> entityId, types |-> types,
   description |-> description, url |-> url, resultScore |-> resultScore,
   location |-> location]

\* responses: the body is JSON text unless parses is FALSE
Response(code, json, parses, headers, error, st, res) ==
  [code |-> code, json |-> json, parses |-> parses, headers |-> headers,
   error |-> error, status |-> st, result |-> res]

NoResponse == Response(0, FALSE, FALSE, NoHeaders, Undefined, Undefined, NULL)

ErrorResponse(code, message) ==
  Response(code, TRUE, TRUE, corsHeaders, Some(message), Undefined, NULL)

StatusResponse(st, res) ==
  Response(200, TRUE, TRUE, corsHeaders, Undefined, Some(st), res)

\* the answer to OPTIONS without the CORS headers
OptionsResponseBare ==
  Response(200, FALSE, FALSE, NoHeaders, Undefined, Undefined, NULL)

OptionsResponse ==
  Response(200, FALSE, FALSE, corsHeaders, Undefined, Undefined, NULL)

BrandNameRequired == "Brand name is required"
ApiKeyNotConfigured ==
  "API key not configured. Please add GOOGLE_KNOWLEDGE_GRAPH_API_KEY to your environment variables."
JsonSyntaxError == "Unexpected token < in JSON at position 0"
DestructureTypeError == "Cannot destructure property 'query' of null"
FetchFailed == "fetch failed"

\* the message of the TypeError that fetch(kgUrl) rejects with is the runtime's:
\* Deno names the request url in it, and kgUrl holds the query and the key
\* (every query that reaches the fetch is "a")
FetchFailedAt(key) ==
  IF key = "K1"
  THEN "error sending request for url (https://kgsearch.googleapis.com/v1/entities:search?query=a&key=K1&limit=10&indent=true)"
  ELSE "error sending request for url (https://kgsearch.googleapis.com/v1/entities:search?query=a&key=K2&limit=10&indent=true)"

UpstreamErrorCodes == {403, 503}
\* the thrown message without the upstream's status
KnowledgeGraphApiErrorGeneric(code) == "Knowledge Graph API error"

KnowledgeGraphApiError(code) ==
  IF code = 403 THEN "Knowledge Graph API error: 403"
  ELSE "Knowledge Graph API error: 503"

\* the first of the indices S at which a for loop over a list would stop,
\* 0 if there is none
FirstIndex(S) == IF S = {} THEN 0 ELSE CHOOSE i \in S : \A j \in S : i <= j

\* result.name || query
NameOrQuery(name, query) ==
  IF IsDefined(name) /\ Val(name) # <<>> THEN name ELSE Some(query)

IsVerifiedItem(item) ==
  item.hasResult /\ hasValidEntityType(normalizeTypes(item.type))

\* the ambiguous test with Book alone
IsAmbiguousItemBookOnly(item) ==
  item.hasResult /\ SomeType(normalizeTypes(item.type), {"Book"})

IsAmbiguousItem(item) ==
  item.hasResult /\ hasAmbiguousType(normalizeTypes(item.type))

VerifiedResult(item, query) ==
  Result(NameOrQuery(item.name, query), item.id, normalizeTypes(item.type),
         item.description, item.url, Undefined, Undefined)

\* the ambiguous branch answering with the status alone
AmbiguousResultOmitted(item, query) == NULL

AmbiguousResult(item, query) ==
  Result(NameOrQuery(item.name, query), Undefined, normalizeTypes(item.type),
         item.description, Undefined, Undefined, Undefined)

\* a single scan in which the first candidate of either kind decides
ClassifySinglePass(query, data) ==
  IF ~data.hasList \/ Len(data.items) = 0
  THEN StatusResponse("ai-invisible", NULL)
  ELSE
    LET v == FirstIndex({i \in 1..Len(data.items) : IsVerifiedItem(data.items[i])})
        a == FirstIndex({i \in 1..Len(data.items) : IsAmbiguousItem(data.items[i])})
    IN IF v # 0 /\ (a = 0 \/ v <= a)
       THEN StatusResponse("machine-verified", VerifiedResult(data.items[v], query))
       ELSE IF a # 0
       THEN StatusResponse("ambiguous", AmbiguousResult(data.items[a], query))
       ELSE StatusResponse("ai-invisible", NULL)

\* the handler from the empty-list check to the last return
Classify(query, data) ==
  IF ~data.hasList \/ Len(data.items) = 0
  THEN StatusResponse("ai-invisible", NULL)
  ELSE
    LET v == FirstIndex({i \in 1..Len(data.items) : IsVerifiedItem(data.items[i])})
        a == FirstIndex({i \in 1..Len(data.items) : IsAmbiguousItem(data.items[i])})
    IN IF v # 0
       THEN StatusResponse("machine-verified", VerifiedResult(data.items[v], query))
       ELSE IF a # 0
       THEN StatusResponse("ambiguous", AmbiguousResult(data.items[a], query))
       ELSE StatusResponse("ai-invisible", NULL)

\* what the call of the upstream search API comes to
UpstreamOutcomes ==
  {[kind |-> k, code |-> 0, data |-> [hasList |-> FALSE, items |-> <<>>]]
     : k \in {"throws", "throwsUrl"}}
    \cup {[kind |-> "status", code |-> c, data |-> [hasList |-> FALSE, items |-> <<>>]]
            : c \in UpstreamErrorCodes}
    \cup {[kind |-> "notJson", code |-> 200, data |-> [hasList |-> FALSE, items |-> <<>>]]}
    \cup {[kind |-> "data", code |-> 200, data |-> d] : d \in UpstreamData}

\* the handler from the fetch of kgUrl on, the catch block included; a
\* rejected fetch is answered with the message it threw, which names the url
\* or does not
AfterFetch(query, key, outcome) ==
  CASE outcome.kind = "throws" -> ErrorResponse(500, FetchFailed)
    [] outcome.kind = "throwsUrl" -> ErrorResponse(500, FetchFailedAt(key))
    [] outcome.kind = "status" ->
         ErrorResponse(500, KnowledgeGraphApiError(outcome.code))
    [] outcome.kind = "notJson" -> ErrorResponse(500, JsonSyntaxError)
    [] OTHER -> Classify(query, outcome.data)

(***************************************************************************)
(* Requests in flight.  A request is sent by the search form ("ui") or by  *)
(* any other client of the endpoint ("client").                            *)
(***************************************************************************)
Request(stage, src, method, body, query, resp, calls, keyRead) ==
  [stage |-> stage, src |-> src, method |-> method, body |-> body,
   query |-> query, resp |-> resp, calls |-> calls, keyRead |-> keyRead]

NoRequest ==
  Request("none", "none", "none", Body("none", JUndefined), <<>>, NoResponse, 0, FALSE)

Ids == 1..MaxRequests

\* requests are numbered in the order they are issued
Issued == {i \in Ids : reqs[i].stage # "none"}
NextId == Cardinality(Issued) + 1

Respond(id, resp) ==
  reqs' = [reqs EXCEPT ![id].stage = "responded", ![id].resp = resp]

\* Deno.serve handler, up to the validation of the query
ProxyReceive(id) ==
  /\ reqs[id].stage = "sent"
  /\ LET r == reqs[id]
     IN IF r.method = "OPTIONS" THEN Respond(id, OptionsResponse)
        ELSE IF r.body.kind = "malformed"
        THEN Respond(id, ErrorResponse(500, JsonSyntaxError))
        ELSE IF r.body.kind = "null"
        THEN Respond(id, ErrorResponse(500, DestructureTypeError))
        ELSE IF ~Truthy(r.body.query) \/ r.body.query.t # "string"
        THEN Respond(id, ErrorResponse(400, BrandNameRequired))
        ELSE reqs' = [reqs EXCEPT ![id].stage = "validated",
                                  ![id].query = r.body.query.v]
  /\ UNCHANGED <<envVars, uiVars>>

\* the call of fetch(kgUrl) without the api key check before it
ProxyReadKeyUnchecked(id) ==
  /\ reqs[id].stage = "validated"
  /\ reqs' = [reqs EXCEPT ![id].stage = "fetching",
                            ![id].keyRead = TRUE,
                            ![id].calls = @ + 1]
  /\ UNCHANGED <<envVars, uiVars>>

\* Deno.env.get, the api key check and the call of fetch(kgUrl)
ProxyReadKey(id) ==
  /\ reqs[id].stage = "validated"
  /\ IF ~IsDefined(apiKey) \/ Val(apiKey) = ""
     THEN reqs' = [reqs EXCEPT ![id].stage = "responded",
                               ![id].keyRead = TRUE,
                               ![id].resp = ErrorResponse(500, ApiKeyNotConfigured)]
     ELSE reqs' = [reqs EXCEPT ![id].stage = "fetching",
                               ![id].keyRead = TRUE,
                               ![id].calls = @ + 1]
  /\ UNCHANGED <<envVars, uiVars>>

\* a handler that answers from what an earlier invocation left behind
UpstreamRespondCached(id, outcome) ==
  /\ reqs[id].stage = "fetching"
  /\ Respond(id, IF \E j \in Ids \ {id} :
                       reqs[j].stage \in {"responded", "done"} /\ reqs[j].calls = 1
                  THEN StatusResponse("ai-invisible", NULL)
                  ELSE AfterFetch(reqs[id].query, Val(apiKey), outcome))
  /\ UNCHANGED <<envVars, uiVars>>

\* the upstream call returns or fails, and the handler runs to its end
UpstreamRespond(id, outcome) ==
  /\ reqs[id].stage = "fetching"
  /\ Respond(id, AfterFetch(reqs[id].query, Val(apiKey), outcome))
  /\ UNCHANGED <<envVars, uiVars>>

(***************************************************************************)
(* Display scores.  A score is null, NaN or a number.                      *)
(***************************************************************************)
Num(n) == [k |-> "num", n |-> n]
ScoreNull == [k |-> "null", n |-> 0]
NaN == [k |-> "NaN", n |-> 0]

\* Math.round of the fraction p / q, q > 0: halves round up
Round(p, q) == (2 * p + q) \div (2 * q)

Min(a, b) == IF a <= b THEN a ELSE b

\* result?.resultScore as a condition: present and not 0
HasScore(res) ==
  res # NULL /\ IsDefined(res.resultScore) /\ Val(res.resultScore) # 0

\* src/App.tsx (and part_000): the score follows the status alone
getFoundScore(st) ==
  CASE st = "machine-verified" -> Num(95)
    [] st = "ambiguous" -> Num(45)
    [] st = "ai-invisible" -> Num(0)
    [] OTHER -> ScoreNull

\* part_001: a raw score below 1 is read as a fraction, any other as a percentage
displayScore(st, res) ==
  IF HasScore(res)
  THEN LET n == Val(res.resultScore)
       IN Num(Min(IF n < 100 THEN n ELSE Round(n, 100), 100))
  ELSE IF st = "ai-invisible" THEN Num(0) ELSE ScoreNull

\* part_002: the raw score times 100
rawScore(st, res) ==
  IF HasScore(res) THEN Num(Val(res.resultScore))
  ELSE IF st = "ai-invisible" THEN Num(0) ELSE ScoreNull

\* part_003, first component: the raw score times 100, at most 100
foundScoreBrutal(st, res) ==
  IF HasScore(res) THEN Num(Min(Val(res.resultScore), 100))
  ELSE IF st = "ai-invisible" THEN Num(0) ELSE ScoreNull

RealEstateTypes ==
  {"RealEstateAgent", "RealEstateListing", "HomeAndConstructionBusiness"}

\* the niche test with Residence added to the list
isRealEstateEntityWithResidence(res) ==
  SomeType(res.types, RealEstateTypes \cup {"Residence"})

isRealEstateEntity(res) == SomeType(res.types, RealEstateTypes)

\* the calibrated score with the base capped at 100
getFoundScoreUncapped(st, res) ==
  IF st = "loading" \/ res = NULL THEN ScoreNull
  ELSE IF st = "ai-invisible" THEN Num(0)
  ELSE IF ~IsDefined(res.resultScore) THEN NaN
  ELSE LET base == Min(10 * Val(res.resultScore), 100 * 6000)
           penalized == IF isRealEstateEntity(res) THEN base ELSE (base * 6) \div 10
       IN Num(Round(penalized, 6000))

\* part_003, second component: the calibrated score.  baseScore is held in
\* units of 1/6000, in which resultScore / 600 * 100 is 10 n and 98 is 588000.
getFoundScoreCalibrated(st, res) ==
  IF st = "loading" \/ res = NULL THEN ScoreNull
  ELSE IF st = "ai-invisible" THEN Num(0)
  ELSE IF ~IsDefined(res.resultScore) THEN NaN
  ELSE LET base == Min(10 * Val(res.resultScore), 98 * 6000)
           penalized == IF isRealEstateEntity(res) THEN base ELSE (base * 6) \div 10
       IN Num(Round(penalized, 6000))

(***************************************************************************)
(* The search form: src/App.tsx and its variants.                          *)
(***************************************************************************)
Variants == {"App", "part_000", "part_001", "part_002", "part_003", "calibrated"}

\* variants whose input and submit button carry disabled={isSearching ...}
DisablesControls(v) == v \in {"App", "part_000", "calibrated"}

\* variants that check the content type of the response before parsing it
ChecksContentType(v) == v \in {"App", "calibrated"}

\* variants that check response.ok
ChecksOk(v) == v \in {"App", "part_000", "calibrated"}

ScoreOf(v, st, res) ==
  CASE v \in {"App", "part_000"} -> getFoundScore(st)
    [] v = "part_001" -> displayScore(st, res)
    [] v = "part_002" -> rawScore(st, res)
    [] v = "part_003" -> foundScoreBrutal(st, res)
    [] OTHER -> getFoundScoreCalibrated(st, res)

\* a score as a condition (foundScore && ...): a number other than 0
ScoreTruthy(score) == score.k = "num" /\ score.n # 0

\* App.tsx tests foundScore !== null, part_000 tests foundScore itself; the
\* calibrated form renders isHighScore as App.tsx does; part_001, part_002 and
\* the first component of part_003 have no high band
isHighScore(v, score) ==
  CASE v \in {"App", "calibrated"} -> score # ScoreNull /\ score.k = "num" /\ score.n > 70
    [] v = "part_000" -> ScoreTruthy(score) /\ score.n > 70
    [] OTHER -> FALSE

\* part_002 has no low band
isLowScore(v, score) ==
  CASE v \in {"App", "calibrated", "part_001", "part_003"} ->
         score # ScoreNull /\ score.k = "num" /\ score.n < 50
    [] v = "part_000" -> ScoreTruthy(score) /\ score.n < 50
    [] OTHER -> FALSE

FailedToFetch == "Failed to fetch"
AuditFailed == "Audit failed."
UnreadableFormat ==
  "The search engine returned an unreadable format. Try a more specific brand name."

InvalidResponseMessage(v) ==
  IF v = "App"
  THEN "Cloud connection error: The server returned an invalid response. This usually happens if the search engine times out."
  ELSE "Cloud connection error: The server returned an invalid response."

FailedMessage(v) ==
  CASE v = "App" -> "Failed to complete the audit. Please try again."
    [] v = "part_000" -> "Failed to search"
    [] OTHER -> "Failed to complete the audit."

\* msg.includes('Unexpected token')
IncludesUnexpectedToken(msg) == msg = JsonSyntaxError

Thrown(msg) == [threw |-> TRUE, msg |-> msg, status |-> "error", result |-> NULL]
Settled(st, res) == [threw |-> FALSE, msg |-> "", status |-> st, result |-> res]

ResponseOk(resp) == resp.code >= 200 /\ resp.code <= 299

\* the try block without the call of setResult on a verified answer
TryBlockKeepsResult(v, resp, held) ==
  IF ChecksContentType(v) /\ ~resp.json THEN Thrown(InvalidResponseMessage(v))
  ELSE IF ~resp.parses THEN Thrown(JsonSyntaxError)
  ELSE IF ChecksOk(v) /\ ~ResponseOk(resp)
  THEN Thrown(IF IsDefined(resp.error) /\ Val(resp.error) # ""
              THEN Val(resp.error) ELSE FailedMessage(v))
  ELSE IF resp.status = Some("machine-verified")
  THEN Settled("machine-verified", held)
  ELSE IF resp.status = Some("ambiguous")
  THEN Settled("ambiguous", resp.result)
  ELSE Settled("ai-invisible", held)

\* the try block of handleSearch once fetch has resolved with resp;
\* in Settled, result NULL stands for no call of setResult
TryBlock(v, resp, held) ==
  IF ChecksContentType(v) /\ ~resp.json THEN Thrown(InvalidResponseMessage(v))
  ELSE IF ~resp.parses THEN Thrown(JsonSyntaxError)
  ELSE IF ChecksOk(v) /\ ~ResponseOk(resp)
  THEN Thrown(IF IsDefined(resp.error) /\ Val(resp.error) # ""
              THEN Val(resp.error) ELSE FailedMessage(v))
  ELSE IF resp.status = Some("machine-verified")
  THEN Settled("machine-verified", resp.result)
  ELSE IF resp.status = Some("ambiguous")
  THEN Settled("ambiguous", resp.result)
  ELSE Settled("ai-invisible", held)

\* the catch block's setErrorMessage
CaughtMessage(v, msg, held) ==
  CASE v = "App" -> IF IncludesUnexpectedToken(msg) THEN UnreadableFormat ELSE msg
    [] v \in {"part_000", "calibrated"} -> msg
    [] v = "part_003" -> AuditFailed
    [] OTHER -> held

\* a state update and the render that follows it: the score is recomputed
Render(st, res) ==
  /\ status' = st
  /\ result' = res
  /\ foundScore' = ScoreOf(variant, st, res)

\* the handler without its finally block
FinishWithoutFinally(id, outcome) ==
  /\ Render(outcome.status, IF outcome.threw THEN result ELSE outcome.result)
  /\ errorMessage' = IF outcome.threw
                     THEN CaughtMessage(variant, outcome.msg, errorMessage)
                     ELSE errorMessage
  /\ isSearching' = isSearching
  /\ reqs' = [reqs EXCEPT ![id].stage = "done",
                            ![id].body = Body("sent", JUndefined),
                            ![id].query = <<>>]
  /\ UNCHANGED <<envVars, brandName>>

\* try, catch and finally of handleSearch, after the await: the catch block
\* sets the status and leaves the result as it is.  Of a request that has
\* completed only the response is kept.
Finish(id, outcome) ==
  /\ Render(outcome.status, IF outcome.threw THEN result ELSE outcome.result)
  /\ errorMessage' = IF outcome.threw
                     THEN CaughtMessage(variant, outcome.msg, errorMessage)
                     ELSE errorMessage
  /\ isSearching' = FALSE
  /\ reqs' = [reqs EXCEPT ![id].stage = "done",
                            ![id].body = Body("sent", JUndefined),
                            ![id].query = <<>>]
  /\ UNCHANGED <<envVars, brandName>>

\* the input's onChange
SetBrandName(text) ==
  /\ ~(DisablesControls(variant) /\ isSearching)
  /\ brandName' = text
  /\ UNCHANGED <<envVars, status, result, isSearching, errorMessage,
                 foundScore, reqs>>

\* the form can be submitted: the button is not disabled
CanSubmit ==
  ~(DisablesControls(variant) /\ (isSearching \/ Trim(brandName) = <<>>))

\* handleSearch without the test of brandName.trim()
handleSearchUnguarded ==
  /\ CanSubmit
  /\ NextId \in Ids
  /\ isSearching' = TRUE
  /\ Render("loading", NULL)
  /\ errorMessage' = ""
  /\ reqs' = [reqs EXCEPT ![NextId] =
                Request("sent", "ui", "POST",
                        Body("object", JString(brandName)), <<>>,
                        NoResponse, 0, FALSE)]
  /\ UNCHANGED <<envVars, brandName>>

\* handleSearch without setResult(null) and setErrorMessage('')
handleSearchKeepsResult ==
  /\ CanSubmit
  /\ IF Trim(brandName) = <<>>
     THEN UNCHANGED vars
     ELSE /\ NextId \in Ids
          /\ isSearching' = TRUE
          /\ Render("loading", result)
          /\ errorMessage' = errorMessage
          /\ reqs' = [reqs EXCEPT ![NextId] =
                        Request("sent", "ui", "POST",
                                Body("object", JString(brandName)), <<>>,
                                NoResponse, 0, FALSE)]
          /\ UNCHANGED <<envVars, brandName>>

\* handleSearch up to the call of fetch
handleSearch ==
  /\ CanSubmit
  /\ IF Trim(brandName) = <<>>
     THEN UNCHANGED vars
     ELSE /\ NextId \in Ids
          /\ isSearching' = TRUE
          /\ Render("loading", NULL)
          /\ errorMessage' = ""
          /\ reqs' = [reqs EXCEPT ![NextId] =
                        Request("sent", "ui", "POST",
                                Body("object", JString(brandName)), <<>>,
                                NoResponse, 0, FALSE)]
          /\ UNCHANGED <<envVars, brandName>>

\* fetch resolves with the proxy's response
HandleResponse(id) ==
  /\ reqs[id].src = "ui"
  /\ reqs[id].stage = "responded"
  /\ Finish(id, TryBlock(variant, reqs[id].resp, result))

\* fetch rejects: the request or its response is lost
FetchFails(id) ==
  /\ reqs[id].src = "ui"
  /\ reqs[id].stage \in {"sent", "responded"}
  /\ Finish(id, Thrown(FailedToFetch))

\* the render branches of src/App.tsx
LoadingPanel == status = "loading"
ResultsDisplay == foundScore # ScoreNull /\ status # "loading"
VerifiedPanel == ResultsDisplay /\ status = "machine-verified" /\ result # NULL
AmbiguousPanel == ResultsDisplay /\ status = "ambiguous"
InvisiblePanel == ResultsDisplay /\ status = "ai-invisible"
ErrorPanel == status = "error"

\* the machine-verified panel of each variant: App.tsx and the calibrated form
\* render it inside the results display, part_002 has none
NestsPanels(v) == v \in {"App", "calibrated"}
HasDetails(v) == v # "part_002"
EntityDetails ==
  /\ HasDetails(variant)
  /\ status = "machine-verified"
  /\ result # NULL
  /\ NestsPanels(variant) => ResultsDisplay

\* the hosting platform answers in the function's place with a page that is
\* not JSON (the function did not start, or the search engine timed out)
GatewayResponse == Response(504, FALSE, FALSE, NoHeaders, Undefined, Undefined, NULL)

GatewayRespond(id) ==
  /\ reqs[id].stage \in {"sent", "fetching"}
  /\ Respond(id, GatewayResponse)
  /\ UNCHANGED <<envVars, uiVars>>

\* the values of GOOGLE_KNOWLEDGE_GRAPH_API_KEY: Spec runs with the key absent
\* or set, ProxySpec also with a second value
ConfiguredKeys == {"K1", "K2"}
ApiKeys == {Undefined, Some("K1")}
ProxyKeys == ApiKeys \cup {Some(k) : k \in ConfiguredKeys}

NoOutcome == [kind |-> "none", code |-> 0, data |-> [hasList |-> FALSE, items |-> <<>>]]

\* the form as useState leaves it
Idle ==
  /\ brandName = <<>>
  /\ status = "null"
  /\ result = NULL
  /\ isSearching = FALSE
  /\ errorMessage = ""
  /\ foundScore = ScoreOf(variant, "null", NULL)

(***************************************************************************)
(* Spec: sessions of the search form against the deployed function.  The   *)
(* upstream search API answers each call in any way it can.                *)
(***************************************************************************)
\* Spec keeps no record of the upstream's answer, so of the outcomes that
\* bring the handler to one and the same response a single one is explored.
\* (A candidate's name is never a brand name, so the outcomes that agree on
\* the response to one query and key agree on it for every query and key.)
DistinctOutcomes ==
  LET answers == {AfterFetch(<<"a">>, "K1", o) : o \in UpstreamOutcomes}
  IN {CHOOSE o \in UpstreamOutcomes : AfterFetch(<<"a">>, "K1", o) = resp : resp \in answers}

Init ==
  /\ variant \in Variants
  /\ apiKey \in ApiKeys
  /\ upstream = NoOutcome
  /\ Idle
  /\ reqs = [i \in Ids |-> NoRequest]

Next ==
  \/ \E text \in Texts : SetBrandName(text)
  \/ handleSearch
  \/ \E id \in Ids : HandleResponse(id)
  \/ \E id \in Ids : FetchFails(id)
  \/ \E id \in Ids : GatewayRespond(id)
  \/ \E id \in Ids : ProxyReceive(id)
  \/ \E id \in Ids : ProxyReadKey(id)
  \/ \E id \in Ids, o \in DistinctOutcomes : UpstreamRespond(id, o)

Spec == Init /\ [][Next]_vars

(***************************************************************************)
(* ProxySpec: one request through the function, and back to the form when  *)
(* the form sent it.  The request, the environment and the upstream's      *)
(* answer are drawn at the start.                                          *)
(***************************************************************************)
ClientRequests ==
  {Request("sent", "client", m, b, <<>>, NoResponse, 0, FALSE)
     : m \in Methods, b \in ClientBodies}

FormRequest(text) ==
  Request("sent", "ui", "POST", Body("object", JString(text)), <<>>,
          NoResponse, 0, FALSE)

ProxyInit ==
  /\ apiKey \in ProxyKeys
  /\ upstream \in UpstreamOutcomes
  /\ variant \in Variants
  /\ \/ /\ variant = "App"
        /\ Idle
        /\ \E r \in ClientRequests :
             reqs = [i \in Ids |-> IF i = 1 THEN r ELSE NoRequest]
     \/ /\ brandName \in {t \in Texts : Trim(t) # <<>>}
        /\ status = "loading"
        /\ result = NULL
        /\ isSearching = TRUE
        /\ errorMessage = ""
        /\ foundScore = ScoreOf(variant, "loading", NULL)
        /\ reqs = [i \in Ids |-> IF i = 1 THEN FormRequest(brandName) ELSE NoRequest]

ProxyNext ==
  \/ \E id \in Ids : ProxyReceive(id)
  \/ \E id \in Ids : ProxyReadKey(id)
  \/ \E id \in Ids : UpstreamRespond(id, upstream)
  \/ \E id \in Ids : HandleResponse(id)

ProxySpec == ProxyInit /\ [][ProxyNext]_vars

(***************************************************************************)
(* ReplaySpec: sessions of the search form in which the upstream has one   *)
(* and the same answer for every call.                                     *)
(***************************************************************************)
ReplayInit ==
  /\ variant \in Variants
  /\ apiKey \in ApiKeys
  /\ upstream \in DistinctOutcomes
  /\ Idle
  /\ reqs = [i \in Ids |-> NoRequest]

ReplayNext ==
  \/ \E text \in Texts : SetBrandName(text)
  \/ handleSearch
  \/ \E id \in Ids : HandleResponse(id)
  \/ \E id \in Ids : ProxyReceive(id)
  \/ \E id \in Ids : ProxyReadKey(id)
  \/ \E id \in Ids : UpstreamRespond(id, upstream)

ReplaySpec == ReplayInit /\ [][ReplayNext]_vars

(***************************************************************************)
(* ScoreSpec: the score functions applied to every status and result of a  *)
(* bounded set.                                                            *)
(***************************************************************************)
RawScores == {0, 5, 50, 99, 100, 200, 30000, 60000, 100000}

ScoreTypes ==
  { <<"Thing">>, <<"Book", "Thing">>, <<"Thing", "RealEstateAgent">>,
    <<"Organization">>, <<"LocalBusiness">>, <<"RealEstateAgent">>,
    <<"LocalBusiness", "RealEstateAgent">>, <<"LocalBusiness", "Residence">> }

ScoreResults ==
  {Result(Some(NameB), Undefined, ty, Undefined, Undefined, rs, Undefined)
     : ty \in ScoreTypes, rs \in {Undefined} \cup {Some(n) : n \in RawScores}}

\* the statuses and results a response can set together: no result with
\* ai-invisible, and with ambiguous a result of an ambiguous type and of no
\* recognized one
ScoreInputs ==
  {<<"ai-invisible", NULL>>}
    \cup {<<"machine-verified", res>> : res \in ScoreResults}
    \cup {<<"ambiguous", res>> :
             res \in {r \in ScoreResults : /\ hasAmbiguousType(r.types)
                                          /\ ~hasValidEntityType(r.types)}}

ScoreInit ==
  /\ variant \in Variants
  /\ apiKey = Some("K1")
  /\ upstream = NoOutcome
  /\ Idle
  /\ reqs = [i \in Ids |-> NoRequest]

ScoreNext ==
  \E in \in ScoreInputs :
    /\ Render(in[1], in[2])
    /\ UNCHANGED <<envVars, brandName, isSearching, errorMessage, reqs>>

ScoreSpec == ScoreInit /\ [][ScoreNext]_vars

(***************************************************************************)
(* The claims.                                                             *)
(***************************************************************************)
Answered(r) == r.stage \in {"responded", "done"}

\* the query of a POST request is missing, empty or not a string
QueryInvalid(r) ==
  /\ r.method = "POST"
  /\ r.body.kind # "sent"
  /\ \/ r.body.kind # "object"
     \/ r.body.query.t # "string"
     \/ r.body.query.v = <<>>

\* C1 (as claimed): every POST request whose query is missing, empty or not a
\* string is answered 400 with an error body, and no upstream call is made.
C1_InvalidQueryIs400 ==
  \A id \in Ids :
    QueryInvalid(reqs[id]) /\ Answered(reqs[id]) =>
      /\ reqs[id].resp.code = 400
      /\ IsDefined(reqs[id].resp.error)
      /\ reqs[id].calls = 0

\* the type tags an upstream candidate carries
TypeTags(item) ==
  IF ~item.hasResult \/ item.type.k = "undefined" THEN {}
  ELSE {item.type.a[i] : i \in 1..Len(item.type.a)}

RecognizedTags == {"Organization", "Corporation", "LocalBusiness"}
AmbiguousTags == {"Book", "Thing"}

IsRecognized(item) == TypeTags(item) \cap RecognizedTags # {}

\* the upstream answered the request's call with a candidate list
ClassifiedList(r) ==
  Answered(r) /\ r.calls = 1 /\ upstream.kind = "data" /\ upstream.data.hasList

C3_NoCandidatesScoreZero ==
  \A id \in Ids :
    /\ reqs[id].src = "ui"
    /\ reqs[id].stage = "done"
    /\ reqs[id].calls = 1
    /\ upstream.kind = "data"
    /\ Len(upstream.data.items) = 0
    => /\ reqs[id].resp.status = Some("ai-invisible")
       /\ status = "ai-invisible"
       /\ foundScore = Num(0)

\* C4 (as claimed): in every state of the form, status ai-invisible comes with
\* a display score of 0 and no result held.
C4_InvisibleIsZeroAndNoResult ==
  status = "ai-invisible" => foundScore = Num(0) /\ result = NULL

\* C5 (as claimed): with status ambiguous the display score is at most 45.
C5_AmbiguousAtMost45 ==
  status = "ambiguous" /\ foundScore.k = "num" => foundScore.n <= 45

\* C6 (as claimed): a display score that is not null is an integer from 0 to 100.
C6_ScoreInRange ==
  foundScore # ScoreNull =>
    foundScore.k = "num" /\ 0 <= foundScore.n /\ foundScore.n <= 100

\* C7 (as claimed): for a fixed status and type list the display score does not
\* decrease when the raw resultScore grows.
C7_Monotonic ==
  \A a \in RawScores :
    /\ result # NULL
    /\ IsDefined(result.resultScore)
    /\ a <= Val(result.resultScore)
    => LET lower == ScoreOf(variant, status, [result EXCEPT !.resultScore = Some(a)])
       IN lower.k = "num" /\ foundScore.k = "num" => lower.n <= foundScore.n

\* requests of the form that have not completed
Outstanding == {id \in Ids : reqs[id].src = "ui" /\ reqs[id].stage \notin {"none", "done"}}

\* C8 (as claimed): at most one request of the form is outstanding at any time.
C8_AtMostOneOutstanding == Cardinality(Outstanding) <= 1

ActiveBranches ==
  {b \in {"machine-verified", "ambiguous", "ai-invisible", "error"} :
     CASE b = "machine-verified" -> VerifiedPanel
       [] b = "ambiguous" -> AmbiguousPanel
       [] b = "ai-invisible" -> InvisiblePanel
       [] OTHER -> ErrorPanel}

\* C9 (as claimed): in every state of src/App.tsx exactly one of the four
\* result branches is rendered.
C9_ExactlyOneBranch ==
  variant = "App" => Cardinality(ActiveBranches) = 1

\* C9 (amended): in every state of src/App.tsx at most one of the four result
\* branches is rendered, none of them together with the loading panel, and
\* exactly one is rendered whenever the status is neither null nor loading.
C9_BranchesExclusive ==
  variant = "App" =>
    /\ Cardinality(ActiveBranches) <= 1
    /\ LoadingPanel => ActiveBranches = {}
    /\ status \notin {"null", "loading"} => ActiveBranches = {status}

\* C9 witness: a verified answer has arrived and its branch alone is rendered.
C9_Witness ==
  /\ variant = "App"
  /\ status = "machine-verified"
  /\ VerifiedPanel
  /\ \E id \in Ids : reqs[id].stage = "done"

ClassificationStatuses ==
  {Some("machine-verified"), Some("ambiguous"), Some("ai-invisible")}

CarriesStatusAndResult(resp) ==
  /\ resp.status \in ClassificationStatuses
  /\ resp.result # NULL <=> resp.status \in {Some("machine-verified"), Some("ambiguous")}

\* C10 (as claimed): every answer of the proxy with HTTP 200 carries one of the
\* three statuses, and a result exactly when machine-verified or ambiguous.
C10_Every200CarriesStatus ==
  \A id \in Ids :
    Answered(reqs[id]) /\ reqs[id].resp.code = 200 =>
      CarriesStatusAndResult(reqs[id].resp)

\* C10 (amended): every answer with HTTP 200 to a POST request carries one of
\* the three statuses, and a result exactly when machine-verified or ambiguous.
C10_Post200CarriesStatus ==
  \A id \in Ids :
    Answered(reqs[id]) /\ reqs[id].method = "POST" /\ reqs[id].resp.code = 200 =>
      CarriesStatusAndResult(reqs[id].resp)

\* C10 witness: a POST request answered 200 with status ambiguous and a result.
C10_Witness ==
  \E id \in Ids :
    /\ Answered(reqs[id])
    /\ reqs[id].method = "POST"
    /\ reqs[id].resp.code = 200
    /\ reqs[id].resp.status = Some("ambiguous")
    /\ reqs[id].resp.result # NULL

\* the request has been answered and its response not yet consumed by the form
Responded(r) == r.stage = "responded"

\* the first candidate of the upstream list with a recognized type
MatchedCandidate ==
  LET items == upstream.data.items
      S == {i \in 1..Len(items) : IsRecognized(items[i])}
  IN items[CHOOSE i \in S : \A j \in S : i <= j]

\* a candidate's type field as a list: a single string becomes a one-element list
TypeList(item) == IF item.type.k = "undefined" THEN <<>> ELSE item.type.a

\* C11 (as claimed): a machine-verified result is the normalization of the
\* matched candidate: its name or else the query, its types as a list in
\* upstream order, and its entityId, description, url and resultScore copied.
C11_VerifiedResultNormalized ==
  \A id \in Ids :
    /\ Responded(reqs[id])
    /\ ClassifiedList(reqs[id])
    /\ reqs[id].resp.status = Some("machine-verified")
    => LET c == MatchedCandidate
           res == reqs[id].resp.result
       IN /\ res # NULL
          /\ res.name = (IF IsDefined(c.name) THEN c.name ELSE Some(reqs[id].query))
          /\ res.types = TypeList(c)
          /\ res.entityId = c.id
          /\ res.description = c.description
          /\ res.url = c.url
          /\ res.resultScore = c.resultScore

\* a POST request whose body is an object with a non-empty string query
QueryValid(r) ==
  /\ r.method = "POST"
  /\ r.body.kind = "object"
  /\ r.body.query.t = "string"
  /\ r.body.query.v # <<>>

MentionsCode(msg, code) ==
  \/ code = 403 /\ msg = "Knowledge Graph API error: 403"
  \/ code = 503 /\ msg = "Knowledge Graph API error: 503"

C14_VerifiedHasEntityId ==
  \A id \in Ids :
    /\ Responded(reqs[id])
    /\ ClassifiedList(reqs[id])
    /\ reqs[id].resp.status = Some("machine-verified")
    => /\ IsRecognized(MatchedCandidate)
       /\ IsDefined(MatchedCandidate.id)
       /\ IsDefined(reqs[id].resp.result.entityId)

\* C15 (as claimed): with status machine-verified or ambiguous and a result
\* that carries no raw resultScore, the display score is the fallback: 70 for
\* machine-verified, 30 for ambiguous.
C15_FallbackScores ==
  /\ status \in {"machine-verified", "ambiguous"}
  /\ result # NULL
  /\ ~IsDefined(result.resultScore)
  => foundScore = Num(IF status = "machine-verified" THEN 70 ELSE 30)

\* the calibrated form holds a result with a raw score under a classification
CalibratedScored ==
  /\ variant = "calibrated"
  /\ status \in {"machine-verified", "ambiguous"}
  /\ result # NULL
  /\ IsDefined(result.resultScore)

\* C16: under the calibrated policy the display score never exceeds 98, and a
\* result of types [RealEstateAgent] with resultScore 600 scores exactly 98
\* and is banded high.
C16_CalibratedCap98 ==
  variant = "calibrated" =>
    /\ foundScore.k = "num" => foundScore.n <= 98
    /\ (CalibratedScored /\ result.types = <<"RealEstateAgent">>
          /\ result.resultScore = Some(60000))
       => /\ foundScore = Num(98)
          /\ isHighScore(variant, foundScore)
          /\ ~isLowScore(variant, foundScore)

\* C16 witness: the calibrated form holds types [RealEstateAgent] with
\* resultScore 600 and shows 98.
C16_Witness ==
  /\ CalibratedScored
  /\ result.types = <<"RealEstateAgent">>
  /\ result.resultScore = Some(60000)
  /\ foundScore = Num(98)

\* the type list holds one of the types S
HoldsOneOf(types, S) == {types[i] : i \in 1..Len(types)} \cap S # {}

\* min(resultScore / 600 * 100, 98), times 0.6 when penalized, rounded; the raw
\* score n is in hundredths and the base in units of 1/6000
ExpectedCalibrated(n, penalized) ==
  LET base == IF 10 * n <= 588000 THEN 10 * n ELSE 588000
      tenths == IF penalized THEN 6 * base ELSE 10 * base
  IN (2 * tenths + 60000) \div 120000

C18_ZeroScoreDistinguished ==
  variant \in {"part_001", "calibrated"} =>
    /\ (status = "machine-verified" /\ result # NULL /\ result.resultScore = Some(0))
       => /\ EntityDetails
          /\ ResultsDisplay
          /\ foundScore.k = "num"
          /\ 0 <= foundScore.n /\ foundScore.n <= 5
    /\ status = "ai-invisible" => ~EntityDetails

\* C19 (as claimed): in App.tsx and part_000 a display score that is not null
\* is banded low exactly when below 50, 0 included, and high exactly when
\* above 70, never both.
C19_Banding ==
  variant \in {"App", "part_000"} /\ foundScore.k = "num" =>
    /\ isLowScore(variant, foundScore) <=> foundScore.n < 50
    /\ isHighScore(variant, foundScore) <=> foundScore.n > 70
    /\ ~(isLowScore(variant, foundScore) /\ isHighScore(variant, foundScore))

\* the request holds a JSON response with a 2xx status
SuccessResponse(r) ==
  r.stage = "responded" /\ r.resp.json /\ r.resp.parses /\ ResponseOk(r.resp)

\* a step in which request id of the form completes without a 2xx JSON
\* response: fetch rejected, or the response was not JSON or not 2xx
FailedCompletion(id) ==
  /\ reqs[id].src = "ui"
  /\ reqs[id].stage # "done"
  /\ reqs'[id].stage = "done"
  /\ ~SuccessResponse(reqs[id])

\* C20: in src/App.tsx a request that fails is terminal: the step that ends it
\* issues no request, leaves status error and isSearching false, and leaves the
\* form ready for a new submit; requests are issued by handleSearch alone.
C20_FailureIsTerminal ==
  [][variant = "App" =>
       /\ \A id \in Ids :
            FailedCompletion(id) =>
              /\ status' = "error"
              /\ isSearching' = FALSE
              /\ Issued' = Issued
              /\ CanSubmit'
              /\ Trim(brandName') # <<>>
       /\ Issued' # Issued => handleSearch]_vars

\* C20 witness: in src/App.tsx a request answered with a non-2xx status has
\* completed, the status is error and the form can be submitted again.
C20_Witness ==
  /\ variant = "App"
  /\ status = "error"
  /\ ~isSearching
  /\ CanSubmit
  /\ \E id \in Ids :
       /\ reqs[id].stage = "done"
       /\ reqs[id].resp.json
       /\ ~ResponseOk(reqs[id].resp)

\* the request of the form has completed on an error payload of the proxy
CompletedOnErrorPayload(r) ==
  /\ r.src = "ui"
  /\ r.stage = "done"
  /\ r.resp.code \in {400, 500}
  /\ r.resp.json
  /\ IsDefined(r.resp.error)

\* C21 (as claimed): when the proxy answers with an error payload the form ends
\* in the error state showing that error (or its cleaned-up text), never in a
\* classification state.
C21_ErrorPayloadShowsError ==
  \A id \in Ids :
    CompletedOnErrorPayload(reqs[id]) =>
      /\ status = "error"
      /\ errorMessage \in {Val(reqs[id].resp.error), UnreadableFormat}

\* the request issued last
Latest(id) == id = Cardinality(Issued)

\* the form's last request completed on a response that is not JSON; a fetch
\* that rejected, so that no response reached the form, is left out
CompletedOnNonJson(r) ==
  /\ r.src = "ui"
  /\ r.stage = "done"
  /\ r.resp # NoResponse
  /\ ~r.resp.json \/ ~r.resp.parses
  /\ errorMessage # FailedToFetch

\* C22 (as claimed): in App.tsx and part_000, when the response that reaches
\* the form is not JSON the form ends in the error state and shows the generic
\* 'try a more specific brand name' message.
C22_NonJsonShowsGenericMessage ==
  \A id \in Ids :
    /\ variant \in {"App", "part_000"}
    /\ Latest(id)
    /\ CompletedOnNonJson(reqs[id])
    => /\ status = "error"
       /\ errorMessage = UnreadableFormat

\* C23: every OPTIONS request is answered 200 with the permissive CORS headers,
\* whatever its body (the body is not read), without a read of the api key and
\* without an upstream call.
C23_OptionsIsPreflight ==
  \A id \in Ids :
    reqs[id].method = "OPTIONS" /\ Answered(reqs[id]) =>
      /\ reqs[id].resp.code = 200
      /\ reqs[id].resp.error = Undefined
      /\ reqs[id].resp.headers.allowOrigin = "*"
      /\ {"POST", "OPTIONS"} \subseteq reqs[id].resp.headers.allowMethods
      /\ {"authorization", "content-type"} \subseteq reqs[id].resp.headers.allowHeaders
      /\ ~reqs[id].keyRead
      /\ reqs[id].calls = 0

\* C23 witness: an OPTIONS request whose body is not JSON, with no api key
\* configured, has been answered 200.
C23_Witness ==
  \E id \in Ids :
    /\ reqs[id].method = "OPTIONS"
    /\ reqs[id].body.kind = "malformed"
    /\ ~IsDefined(apiKey)
    /\ Responded(reqs[id])
    /\ reqs[id].resp.code = 200

\* the part of a response the caller receives: status code and body
Received(resp) ==
  [code |-> resp.code, error |-> resp.error, status |-> resp.status,
   result |-> resp.result]

\* C24 (as claimed): the response to a request does not depend on the value of
\* the configured key: for every upstream outcome, the run with any other key
\* value answers with the same status code and body.
C24_ResponseIndependentOfKey ==
  \A id \in Ids :
    Responded(reqs[id]) /\ IsDefined(apiKey) /\ reqs[id].calls = 1 =>
      \A k \in ConfiguredKeys :
        Received(AfterFetch(reqs[id].query, k, upstream)) = Received(reqs[id].resp)

\* the upstream was called for the request and the request has been answered
AnsweredAfterCall(r) == Answered(r) /\ r.calls = 1

NoneRecognized(r) ==
  /\ Responded(r)
  /\ r.calls = 1
  /\ upstream.kind = "data"
  /\ \A i \in 1..Len(upstream.data.items) : ~IsRecognized(upstream.data.items[i])

\* the positions of the candidates with a type among Book and Thing
AmbiguousPositions ==
  {i \in 1..Len(upstream.data.items) :
     TypeTags(upstream.data.items[i]) \cap AmbiguousTags # {}}

C27_BlankSubmitDoesNothing ==
  [][Trim(brandName) = <<>> =>
       /\ Issued' = Issued
       /\ status' = "loading" => status = "loading"
       /\ isSearching' => isSearching
       /\ DisablesControls(variant) =>
            UNCHANGED <<status, result, errorMessage, isSearching, foundScore, reqs>>
       /\ handleSearch =>
            UNCHANGED <<status, result, errorMessage, isSearching, foundScore, reqs>>]_vars

\* C27 witness: src/App.tsx holds the result of a search and a blank name; the
\* button is disabled.
C27_Witness ==
  /\ variant = "App"
  /\ brandName = <<" ">>
  /\ status = "machine-verified"
  /\ ~CanSubmit
  /\ ~isSearching

\* a step that completes the request of the form issued last
CompletesLatest ==
  \E id \in Ids :
    /\ Latest(id)
    /\ reqs[id].src = "ui"
    /\ reqs[id].stage # "done"
    /\ reqs'[id].stage = "done"

\* C28: in src/App.tsx an accepted submit enters loading with no result, no
\* error message and isSearching true, and the form leaves loading, or drops
\* isSearching, only in the step that completes that request.
C28_LoadingUntilCompletion ==
  [][variant = "App" =>
       /\ Issued' # Issued =>
            /\ status' = "loading"
            /\ result' = NULL
            /\ errorMessage' = ""
            /\ isSearching'
            /\ foundScore' = ScoreNull
       /\ status = "loading" => isSearching
       /\ (status = "loading" /\ (status' # "loading" \/ ~isSearching'))
            => CompletesLatest]_vars

\* C28 witness: src/App.tsx is loading while the proxy waits for the upstream.
C28_Witness ==
  /\ variant = "App"
  /\ status = "loading"
  /\ isSearching
  /\ result = NULL
  /\ \E id \in Ids : Latest(id) /\ reqs[id].stage = "fetching"

\* the requests of the form, and the one submitted last
FormRequests == {i \in Issued : reqs[i].src = "ui"}
LastSubmitted == CHOOSE i \in FormRequests : \A j \in FormRequests : j <= i

\* what the completion of the request submitted last displays when nothing
\* else is in flight: the outcome of its response, or error when its fetch
\* rejected
DisplayOfLast(st, res) ==
  \/ st = "error"
  \/ /\ reqs[LastSubmitted].resp # NoResponse
     /\ LET outcome == TryBlock(variant, reqs[LastSubmitted].resp, res) IN
          /\ st = outcome.status
          /\ st \in {"machine-verified", "ambiguous"} => res = outcome.result

\* C29 (as claimed): once every request of the form has completed, the
\* displayed status and result are those of the query submitted last.
C29_LastSubmittedWins ==
  (FormRequests # {} /\ \A i \in FormRequests : reqs[i].stage = "done")
    => DisplayOfLast(status, result)

\* C30 (as claimed): every POST request with an invalid query is answered 400
\* without the api key having been read, and the key is read only for requests
\* whose query is valid.
C30_QueryCheckedBeforeKey ==
  \A id \in Ids :
    /\ QueryInvalid(reqs[id]) /\ Answered(reqs[id]) =>
         /\ reqs[id].resp.code = 400
         /\ ~reqs[id].keyRead
    /\ reqs[id].keyRead /\ reqs[id].body.kind # "sent" => QueryValid(reqs[id])

====
